---- MODULE Spec2Model ----
(***************************************************************************)
(* Model of clozerai-desktop.                                              *)
(*                                                                         *)
(* Part 1 - the Electron main process (src/src/main/main.ts): the single   *)
(* process-wide slot `audioTapInstance` and the two async IPC handlers     *)
(* 'ipc-start-audio-tap' and 'ipc-stop-audio-tap'.  A handler runs         *)
(* synchronously up to its next `await`; every action below is one such    *)
(* run-to-await segment, so the interleavings of the model are exactly the *)
(* ones the Node event loop can produce when IPC requests overlap.         *)
(*                                                                         *)
(* Part 2 - the renderer hook useSessionTranscription (src/unnamed/        *)
(* part_000): the session clock and the auto-extension effects.            *)
(*                                                                         *)
(* Part 3 - the chat handlers of the same hook: the conversation, the      *)
(* requests in flight and the handler invocations suspended at an await.   *)
(***************************************************************************)
EXTENDS Integers, Sequences, FiniteSets, TLC

\* ------------------------------------------------------------------ bounds
\* IPC invocations that may be in flight at the same time.
MaxHandlers == 3
\* Adapter instances the native start functions may hand out in one run.
MaxInstances == 3

Handlers == 1..MaxHandlers
Instances == 1..MaxInstances

\* `null` for the slot and for a handler's local references.
NoInstance == 0

\* process.platform values; the last one stands for every other host.
Platforms == {"darwin", "win32", "linux"}

VARIABLES
    platform,          \* process.platform, fixed for the process
    audioTapInstance,  \* main.ts:57, NoInstance or an instance id
    inst,              \* per instance: "unused" | "starting" | "live" | "failed" | "cleaned"
    pc,                \* per handler invocation: where it is suspended
    awaiting,          \* per handler: the instance whose promise it awaits
    replaced,          \* per start handler: the instance it found in the slot
    lastOp             \* the handler segment that ran last, and what it returned

mainVars == <<platform, audioTapInstance, inst, pc, awaiting, replaced, lastOp>>

VARIABLE
    hook               \* the state of one mounted useSessionTranscription hook

VARIABLE
    chat               \* the conversation of useChat and the chat handlers
                       \* of the hook that are suspended at an await

VARIABLE
    app                \* main.ts:56, 60: the main window and the stored
                       \* protocol URL

vars == <<mainVars, hook, chat, app>>

\* ------------------------------------------------------------ main process

\* The instance the next native start call returns a promise for.
FreshInstance == CHOOSE i \in Instances :
                    /\ inst[i] = "unused"
                    /\ \A j \in Instances : inst[j] = "unused" => i <= j

UnusedInstances == {i \in Instances : inst[i] = "unused"}

\* Start invocations that will still ask for an instance.
PendingStarts == {h \in Handlers : pc[h] = "startAwaitCleanup"}

\* Handlers suspended at `await audioTapInstance.cleanup()` on instance i:
\* the cleanup() invocations on i that have not completed yet.
CleanupWaiters(i) ==
    {h \in Handlers : /\ pc[h] \in {"startAwaitCleanup", "stopAwaitCleanup"}
                      /\ awaiting[h] = i}

\* An adapter is live from the moment its native start resolved until a
\* cleanup() on it has run to completion.
Live == {i \in Instances : inst[i] = "live"}

\* No 'ipc-start-audio-tap' / 'ipc-stop-audio-tap' invocation is in progress.
Quiescent == \A h \in Handlers : pc[h] = "idle"

\* op: the segment; ret: what the invocation returned or threw when the
\* segment ended it ("none" while it is suspended); target: the instance the
\* segment called cleanup() or the native start for, or stored; old: the
\* instance a start invocation found in the slot; prev: the segment that ran
\* before this one.
Op(name, h, ret, target, old) ==
    [op |-> name, ret |-> ret, target |-> target, old |-> old,
     prev |-> lastOp.op]

MainInit ==
    /\ platform \in Platforms
    /\ audioTapInstance = NoInstance
    /\ inst = [i \in Instances |-> "unused"]
    /\ pc = [h \in Handlers |-> "idle"]
    /\ awaiting = [h \in Handlers |-> NoInstance]
    /\ replaced = [h \in Handlers |-> NoInstance]
    /\ lastOp = [op |-> "none", ret |-> "none", target |-> NoInstance,
                 old |-> NoInstance, prev |-> "none"]

\* Faulty variant of PlatformDispatch: a plain `else` in place of
\* `else if (isWindows)`.
PlatformDispatch_ElseWindows(p) ==
    IF p = "darwin" THEN "startAudioTapMac" ELSE "startAudioTapWin"

\* main.ts:116-124, the platform dispatch of 'ipc-start-audio-tap': which
\* native start function the handler calls on host p (isWindows, main.ts:49,
\* is process.platform === 'win32').
PlatformDispatch(p) ==
    IF p = "darwin" THEN "startAudioTapMac"
    ELSE IF p = "win32" THEN "startAudioTapWin"
    ELSE "unsupported"

\* main.ts:89-130 up to the await of the native start: on a supported host
\* the native start is called and the handler suspends on its promise; on any
\* other host the handler throws at once.  instNow is the instance table as
\* the segment before left it, old the instance the invocation replaced.
BeginNativeStart(h, instNow, opName, old) ==
    IF PlatformDispatch(platform) = "unsupported"
    THEN /\ inst' = instNow
         /\ pc' = [pc EXCEPT ![h] = "idle"]
         /\ awaiting' = [awaiting EXCEPT ![h] = NoInstance]
         /\ replaced' = [replaced EXCEPT ![h] = NoInstance]
         /\ lastOp' = Op(opName, h, "UnsupportedPlatform", NoInstance, old)
    ELSE /\ inst' = [instNow EXCEPT ![FreshInstance] = "starting"]
         /\ pc' = [pc EXCEPT ![h] = "startAwaitStart"]
         /\ awaiting' = [awaiting EXCEPT ![h] = FreshInstance]
         /\ replaced' = [replaced EXCEPT ![h] = old]
         /\ lastOp' = Op(opName, h, "none", FreshInstance, old)

\* Faulty variant of StartAudioTap: cleanup() is called but not awaited, the
\* slot is cleared and the native start is called in the same segment.
StartAudioTap_NoAwait(h) ==
    /\ pc[h] = "idle"
    /\ Cardinality(UnusedInstances) > Cardinality(PendingStarts)
    /\ audioTapInstance' = NoInstance
    /\ BeginNativeStart(h, inst, "StartAudioTap", audioTapInstance)
    /\ UNCHANGED platform
    /\ UNCHANGED <<hook, chat, app>>

\* main.ts:74-81 when the slot is occupied (cleanup() is called on the old
\* instance and the handler suspends on it), main.ts:74-76, 89-124 when it
\* is empty.
StartAudioTap(h) ==
    /\ pc[h] = "idle"
    /\ Cardinality(UnusedInstances) > Cardinality(PendingStarts)
    /\ IF audioTapInstance # NoInstance
       THEN /\ pc' = [pc EXCEPT ![h] = "startAwaitCleanup"]
            /\ awaiting' = [awaiting EXCEPT ![h] = audioTapInstance]
            /\ replaced' = [replaced EXCEPT ![h] = audioTapInstance]
            /\ lastOp' = Op("StartAudioTapCleanup", h, "none",
                            audioTapInstance, audioTapInstance)
            /\ UNCHANGED <<audioTapInstance, inst>>
       ELSE /\ BeginNativeStart(h, inst, "StartAudioTap", NoInstance)
            /\ UNCHANGED audioTapInstance
    /\ UNCHANGED platform
    /\ UNCHANGED <<hook, chat, app>>

\* main.ts:81-82, 86, 89-124: the awaited cleanup resolved; the slot is
\* cleared and the native start is called.
StartCleanupResolved(h) ==
    /\ pc[h] = "startAwaitCleanup"
    /\ audioTapInstance' = NoInstance
    /\ BeginNativeStart(h, [inst EXCEPT ![awaiting[h]] = "cleaned"],
                        "StartCleanupResolved", replaced[h])
    /\ UNCHANGED platform
    /\ UNCHANGED <<hook, chat, app>>

\* Faulty variant of StartCleanupThrew: no try/catch around the cleanup, the
\* error ends the invocation with the slot untouched.
StartCleanupThrew_Propagates(h) ==
    /\ pc[h] = "startAwaitCleanup"
    /\ inst' = [inst EXCEPT ![awaiting[h]] = "cleaned"]
    /\ pc' = [pc EXCEPT ![h] = "idle"]
    /\ awaiting' = [awaiting EXCEPT ![h] = NoInstance]
    /\ replaced' = [replaced EXCEPT ![h] = NoInstance]
    /\ lastOp' = Op("StartCleanupThrew", h, "CleanupFailed", awaiting[h],
                    replaced[h])
    /\ UNCHANGED <<platform, audioTapInstance>>
    /\ UNCHANGED <<hook, chat, app>>

\* main.ts:81, 83-86, 89-124: the awaited cleanup threw; the error is
\* logged, the slot is cleared and the native start is called all the same.
StartCleanupThrew(h) ==
    /\ pc[h] = "startAwaitCleanup"
    /\ audioTapInstance' = NoInstance
    /\ BeginNativeStart(h, [inst EXCEPT ![awaiting[h]] = "cleaned"],
                        "StartCleanupThrew", replaced[h])
    /\ UNCHANGED platform
    /\ UNCHANGED <<hook, chat, app>>

\* main.ts:117/119, 126: the native start resolved with the new instance; it
\* is stored in the slot and Status.RECORDING is returned.
StartResolved(h) ==
    /\ pc[h] = "startAwaitStart"
    /\ inst' = [inst EXCEPT ![awaiting[h]] = "live"]
    /\ audioTapInstance' = awaiting[h]
    /\ pc' = [pc EXCEPT ![h] = "idle"]
    /\ awaiting' = [awaiting EXCEPT ![h] = NoInstance]
    /\ replaced' = [replaced EXCEPT ![h] = NoInstance]
    /\ lastOp' = Op("StartResolved", h, "RECORDING", awaiting[h], replaced[h])
    /\ UNCHANGED platform
    /\ UNCHANGED <<hook, chat, app>>

\* main.ts:117/119, 127-129: the native start rejected; the error is logged
\* and rethrown, the slot is not assigned.
StartRejected(h) ==
    /\ pc[h] = "startAwaitStart"
    /\ inst' = [inst EXCEPT ![awaiting[h]] = "failed"]
    /\ pc' = [pc EXCEPT ![h] = "idle"]
    /\ awaiting' = [awaiting EXCEPT ![h] = NoInstance]
    /\ replaced' = [replaced EXCEPT ![h] = NoInstance]
    /\ lastOp' = Op("StartRejected", h, "StartFailed", awaiting[h], replaced[h])
    /\ UNCHANGED <<platform, audioTapInstance>>
    /\ UNCHANGED <<hook, chat, app>>

\* main.ts:134-138 when the slot is occupied (cleanup() is called on the
\* instance and the handler suspends on it), main.ts:134-135, 146 when it is
\* empty.
StopAudioTap(h) ==
    /\ pc[h] = "idle"
    /\ IF audioTapInstance # NoInstance
       THEN /\ pc' = [pc EXCEPT ![h] = "stopAwaitCleanup"]
            /\ awaiting' = [awaiting EXCEPT ![h] = audioTapInstance]
            /\ lastOp' = Op("StopAudioTapCleanup", h, "none",
                            audioTapInstance, NoInstance)
       ELSE /\ lastOp' = Op("StopAudioTapEmpty", h, "IDLE", NoInstance,
                            NoInstance)
            /\ UNCHANGED <<pc, awaiting>>
    /\ UNCHANGED <<platform, audioTapInstance, inst, replaced>>
    /\ UNCHANGED <<hook, chat, app>>

\* Faulty variant of StopCleanupResolved: the slot is not cleared.
StopCleanupResolved_KeepSlot(h) ==
    /\ pc[h] = "stopAwaitCleanup"
    /\ inst' = [inst EXCEPT ![awaiting[h]] = "cleaned"]
    /\ pc' = [pc EXCEPT ![h] = "idle"]
    /\ awaiting' = [awaiting EXCEPT ![h] = NoInstance]
    /\ lastOp' = Op("StopCleanupResolved", h, "IDLE", awaiting[h], NoInstance)
    /\ UNCHANGED <<platform, audioTapInstance, replaced>>
    /\ UNCHANGED <<hook, chat, app>>

\* main.ts:138-139, 143, 146: the awaited cleanup resolved; the slot is
\* cleared and Status.IDLE is returned.
StopCleanupResolved(h) ==
    /\ pc[h] = "stopAwaitCleanup"
    /\ inst' = [inst EXCEPT ![awaiting[h]] = "cleaned"]
    /\ audioTapInstance' = NoInstance
    /\ pc' = [pc EXCEPT ![h] = "idle"]
    /\ awaiting' = [awaiting EXCEPT ![h] = NoInstance]
    /\ lastOp' = Op("StopCleanupResolved", h, "IDLE", awaiting[h], NoInstance)
    /\ UNCHANGED <<platform, replaced>>
    /\ UNCHANGED <<hook, chat, app>>

\* main.ts:138, 140-143, 146: the awaited cleanup threw; the error is
\* logged, the slot is cleared and Status.IDLE is returned all the same.
StopCleanupThrew(h) ==
    /\ pc[h] = "stopAwaitCleanup"
    /\ inst' = [inst EXCEPT ![awaiting[h]] = "cleaned"]
    /\ audioTapInstance' = NoInstance
    /\ pc' = [pc EXCEPT ![h] = "idle"]
    /\ awaiting' = [awaiting EXCEPT ![h] = NoInstance]
    /\ lastOp' = Op("StopCleanupThrew", h, "IDLE", awaiting[h], NoInstance)
    /\ UNCHANGED <<platform, replaced>>
    /\ UNCHANGED <<hook, chat, app>>

MainNext ==
    \E h \in Handlers :
        \/ StartAudioTap(h)
        \/ StartCleanupResolved(h)
        \/ StartCleanupThrew(h)
        \/ StartResolved(h)
        \/ StartRejected(h)
        \/ StopAudioTap(h)
        \/ StopCleanupResolved(h)
        \/ StopCleanupThrew(h)

TypeOK ==
    /\ platform \in Platforms
    /\ audioTapInstance \in Instances \cup {NoInstance}
    /\ inst \in [Instances -> {"unused", "starting", "live", "failed", "cleaned"}]
    /\ pc \in [Handlers -> {"idle", "startAwaitCleanup", "startAwaitStart",
                            "stopAwaitCleanup"}]
    /\ awaiting \in [Handlers -> Instances \cup {NoInstance}]
    /\ replaced \in [Handlers -> Instances \cup {NoInstance}]


\* ------------------------------------------------------------- renderer
\* useSessionTranscription (src/unnamed/part_000).  The hook's state is one
\* record; an event handler is an operator from the record of the render it
\* was created in to the record after its state updates, and every action
\* ends with the effects React runs after the re-render.

\* Timer periods the local clock may advance in one run.
MaxTicks == 4
\* Times the server may prolong the session in one run.
MaxExtended == 1

\* part_000:359, the interval of the clock timer.
TickMs == 1000
\* part_000:374, time-left below which the auto-extension effect fires.
RenewBelowMs == 60000
\* part_000:389, time-left above which hasAutoExtended is reset.
ResetAboveMs == 60000
\* part_000:161, server-side time-left below which willAutoExtend holds.
WillExtendBelowMs == 360000

\* Upper end of the local clock, in ms since the hook was mounted.
MaxNow == MaxTicks * TickMs
\* A timer callback that arrives late (throttled or suspended window) moves
\* the clock by several intervals at once.
LateTickMs == 3 * TickMs
\* The server prolongs a session by this much when it extends it.
ExtendMs == 2 * TickMs

\* A nullable value: None is null / undefined, Some(v) a present value.
None == <<>>
Some(v) == <<v>>
Val(o) == o[1]

\* JavaScript truthiness of `number | null`: null and 0 are falsy, every
\* other number (a negative one too) is truthy.
Truthy(o) == o # None /\ Val(o) # 0

\* Speechmatics API keys the server may issue.
Keys == {1}

\* Expiry times a session has when it is first loaded: none (not activated),
\* one that passes within the run, one just above the renewal threshold.
FirstEndsAt == {None, Some(2 * TickMs), Some(RenewBelowMs + TickMs)}

\* CallSession as the API returns it at local time t (useCallSession.ts:3-30):
\* expired and timeLeft are computed by the server when it answers.
Snapshot(endsAt, extended, t, canExtend, trial, key) ==
    [endsAt |-> endsAt,
     extended |-> extended,
     timeLeft |-> IF endsAt = None THEN None ELSE Some(Val(endsAt) - t),
     expired |-> endsAt # None /\ Val(endsAt) < t,
     canExtend |-> canExtend,
     trial |-> trial,
     speechmaticsApiKey |-> key]

HookInit ==
    [now |-> 0,
     callSession |-> None,
     hasAutoExtended |-> FALSE,
     hasChatActivitySinceLastExtension |-> TRUE,
     audioTapStatus |-> "IDLE",
     isRecordingMicrophone |-> FALSE,
     startingMicrophoneTranscription |-> FALSE,
     audioTapKey |-> None,
     microphoneKey |-> None,
     extending |-> None,
     startingAudioTap |-> FALSE,
     attempts |-> 0,
     nearAttempts |-> 0,
     lastEffect |-> "none",
     calls |-> {},
     attemptRender |-> None,
     keySource |-> "none",
     renewalFailed |-> FALSE,
     chatTriggered |-> FALSE]

\* The hook at the start of an event: calls collects the calls the event and
\* the effects after it make, as <<caller, callee>>; attemptRender is the
\* render in which the auto-extension effect called handleSessionExtended;
\* keySource tells where handleSessionExtended took the key it switched in.
Fresh(hk) ==
    [hk EXCEPT !.calls = {}, !.attemptRender = None, !.keySource = "none"]

Call(hk, caller, callee) == [hk EXCEPT !.calls = @ \cup {<<caller, callee>>}]

\* part_000:39-43, isPending of the activation mutation: a call of
\* generateSpeechmaticsSession by one of the three handlers is in flight.
generateSpeechmaticsSessionLoading(hk) ==
    \/ hk.extending # None
    \/ hk.startingAudioTap
    \/ hk.startingMicrophoneTranscription

\* part_000:147
sessionExpired(hk) ==
    hk.callSession # None /\ Val(hk.callSession).expired

\* part_000:148-150
timeLeft(hk) ==
    IF hk.callSession # None /\ Val(hk.callSession).endsAt # None
    THEN Some(Val(Val(hk.callSession).endsAt) - hk.now)
    ELSE None

\* Faulty variant of willAutoExtend: trial sessions are not excluded and a
\* call in flight is not waited for.
willAutoExtend_TrialOrBusy(hk) ==
    /\ hk.callSession # None
    /\ Truthy(Val(hk.callSession).timeLeft)
    /\ Val(Val(hk.callSession).timeLeft) < WillExtendBelowMs
    /\ Val(hk.callSession).canExtend
    /\ hk.hasChatActivitySinceLastExtension

\* part_000:159-166
willAutoExtend(hk) ==
    /\ hk.callSession # None
    /\ Truthy(Val(hk.callSession).timeLeft)
    /\ Val(Val(hk.callSession).timeLeft) < WillExtendBelowMs
    /\ ~generateSpeechmaticsSessionLoading(hk)
    /\ Val(hk.callSession).canExtend
    /\ ~Val(hk.callSession).trial
    /\ hk.hasChatActivitySinceLastExtension

\* Faulty variant of SwitchKeys: the key is changed by stopping the adapter
\* and starting it again.
SwitchKeys_Restart(hk, tapRecording, micRecording, key) ==
    [hk EXCEPT
        !.audioTapKey = IF tapRecording THEN Some(key) ELSE @,
        !.audioTapStatus = IF tapRecording THEN "IDLE" ELSE @,
        !.microphoneKey = IF micRecording THEN Some(key) ELSE @,
        !.calls = @ \cup
            (IF tapRecording
             THEN {<<"handleSessionExtended", "stopAudioTapRecording">>,
                   <<"handleSessionExtended", "startAudioTapTranscription">>}
             ELSE {}) \cup
            (IF micRecording
             THEN {<<"handleSessionExtended", "stopMicrophoneRecording">>,
                   <<"handleSessionExtended", "startMicrophoneTranscription">>}
             ELSE {}),
        !.hasChatActivitySinceLastExtension = FALSE,
        !.chatTriggered = FALSE]

\* part_000:190-197, the tail of handleSessionExtended: the adapters that
\* were recording in the render the handler was called from get the key, and
\* the chat-activity flag is cleared.
SwitchKeys(hk, tapRecording, micRecording, key) ==
    [hk EXCEPT
        !.audioTapKey = IF tapRecording THEN Some(key) ELSE @,
        !.microphoneKey = IF micRecording THEN Some(key) ELSE @,
        !.calls = @ \cup
            (IF tapRecording
             THEN {<<"handleSessionExtended", "switchAudioTapApiKey">>}
             ELSE {}) \cup
            (IF micRecording
             THEN {<<"handleSessionExtended", "switchMicrophoneApiKey">>}
             ELSE {}),
        !.hasChatActivitySinceLastExtension = FALSE,
        !.chatTriggered = FALSE]

\* part_000:178-198 up to the first await: with a key in the session the
\* handler runs to its end; without one it calls generateSpeechmaticsSession
\* and suspends, keeping the adapter states of the render it was called from.
handleSessionExtended(hk) ==
    LET cs == Val(hk.callSession)
        tapRecording == hk.audioTapStatus = "RECORDING"
    IN  IF cs.speechmaticsApiKey # None
        THEN SwitchKeys([hk EXCEPT !.keySource = "callSession"],
                        tapRecording, hk.isRecordingMicrophone,
                        Val(cs.speechmaticsApiKey))
        ELSE Call([hk EXCEPT
                !.extending = Some([tapRecording |-> tapRecording,
                                    micRecording |-> hk.isRecordingMicrophone])],
                  "handleSessionExtended", "generateSpeechmaticsSession")

\* part_000:344-347, the stop functions of useAudioTap and
\* useMicrophoneTranscription: both adapters end up idle; audioTapKey and
\* microphoneKey are the keys the adapters work with and go with the stop.
handleStopAllRecording(hk) ==
    [hk EXCEPT !.audioTapStatus = "IDLE", !.isRecordingMicrophone = FALSE,
               !.audioTapKey = None, !.microphoneKey = None,
               !.calls = @ \cup
                   {<<"handleStopAllRecording", "stopAudioTapRecording">>,
                    <<"handleStopAllRecording", "stopMicrophoneRecording">>}]

\* Faulty variant of ShouldAutoExtend: hasAutoExtended is not consulted.
ShouldAutoExtend_IgnoreFlag(hk) ==
    /\ willAutoExtend(hk)
    /\ Truthy(timeLeft(hk))
    /\ Val(timeLeft(hk)) < RenewBelowMs

\* part_000:374, the condition of the auto-extension effect.
ShouldAutoExtend(hk) ==
    /\ willAutoExtend(hk)
    /\ Truthy(timeLeft(hk))
    /\ Val(timeLeft(hk)) < RenewBelowMs
    /\ ~hk.hasAutoExtended

\* part_000:388-392, the condition of the reset effect.
ShouldResetAutoExtended(hk) ==
    /\ Truthy(timeLeft(hk))
    /\ Val(timeLeft(hk)) > ResetAboveMs
    /\ hk.hasAutoExtended

\* The narrowest band above the renewal threshold that the clock can
\* resolve: time-left that is above RenewBelowMs by no more than one timer
\* period is still "around the renewal threshold".
NearBandTopMs == RenewBelowMs + TickMs

\* What a renewal attempt adds to the bookkeeping of the claims: attempts
\* counts the calls of handleSessionExtended since hasAutoExtended was last
\* reset, nearAttempts those since time-left was last above NearBandTopMs
\* (2 stands for "more than one"); attemptRender keeps what the render hk,
\* in which the effect fired, saw.
NoteAttempt(hk, after) ==
    [after EXCEPT
        !.attempts = IF @ < 2 THEN @ + 1 ELSE 2,
        !.nearAttempts = IF @ < 2 THEN @ + 1 ELSE 2,
        !.lastEffect = "extend",
        !.renewalFailed = FALSE,
        !.attemptRender =
            Some([trial |-> Val(hk.callSession).trial,
                  canExtend |-> Val(hk.callSession).canExtend,
                  loading |-> generateSpeechmaticsSessionLoading(hk),
                  chatActivity |-> hk.hasChatActivitySinceLastExtension,
                  chatTriggered |-> hk.chatTriggered,
                  timeLeft |-> timeLeft(hk)])]

\* Bookkeeping of a render in which no renewal is attempted: time-left
\* above NearBandTopMs ends the stay around the renewal threshold.
NoteRender(hk, after) ==
    IF Truthy(timeLeft(hk)) /\ Val(timeLeft(hk)) > NearBandTopMs
    THEN [after EXCEPT !.nearAttempts = 0]
    ELSE after

\* part_000:365-392, the effects after a commit.  before is the record of
\* the previous commit, hk the one of this commit: the stop effect runs when
\* sessionExpired changed, the other two after every render.  All three read
\* the values of this render.
Effects(before, hk) ==
    LET stopped == IF sessionExpired(hk) /\ ~sessionExpired(before)
                   THEN handleStopAllRecording(hk)
                   ELSE hk
        snapshot == [stopped EXCEPT !.audioTapStatus = hk.audioTapStatus,
                        !.isRecordingMicrophone = hk.isRecordingMicrophone]
        extended == [handleSessionExtended(
                        [snapshot EXCEPT !.hasAutoExtended = TRUE])
                     EXCEPT !.audioTapStatus = stopped.audioTapStatus,
                            !.isRecordingMicrophone = stopped.isRecordingMicrophone]
    IN  IF ShouldAutoExtend(hk)
        THEN NoteAttempt(hk, extended)
        ELSE IF ShouldResetAutoExtended(hk)
        THEN NoteRender(hk, [stopped EXCEPT !.hasAutoExtended = FALSE,
                                            !.attempts = 0,
                                            !.renewalFailed = FALSE,
                                            !.lastEffect = "reset"])
        ELSE NoteRender(hk, [stopped EXCEPT !.lastEffect = "none"])

\* part_000:357-363, the clock timer fires: setTime(new Date()).
Tick ==
    \E d \in {TickMs, LateTickMs} :
        /\ hook.now + d <= MaxNow
        /\ hook' = Effects(hook, [Fresh(hook) EXCEPT !.now = @ + d])
        /\ UNCHANGED <<mainVars, chat, app>>

\* What the next answer of the server may carry as <<endsAt, extended>>:
\* the values of a first load, or the last ones, or the last ones after the
\* server prolonged the session once more.
NextExpiry(hk) ==
    IF hk.callSession = None THEN {<<e, 0>> : e \in FirstEndsAt}
    ELSE LET cs == Val(hk.callSession)
         IN  {<<cs.endsAt, cs.extended>>} \cup
             (IF cs.endsAt # None /\ cs.extended < MaxExtended
              THEN {<<Some(Val(cs.endsAt) + ExtendMs), cs.extended + 1>>}
              ELSE {})

\* A session is a trial or not for good.
NextTrial(hk) ==
    IF hk.callSession = None THEN BOOLEAN ELSE {Val(hk.callSession).trial}

\* useCallSession.ts:32-53, the query (re)fetches the session: the first
\* answer fixes what the server never changes, a later answer may carry a
\* prolonged expiry, another canExtend and a key.
Poll ==
    /\ \E canExtend \in BOOLEAN, key \in {None} \cup {Some(k) : k \in Keys} :
        \E expiry \in NextExpiry(hook), trial \in NextTrial(hook) :
            hook' = Effects(hook, [Fresh(hook) EXCEPT !.callSession =
                Some(Snapshot(expiry[1], expiry[2], hook.now, canExtend,
                              trial, key))])
    /\ UNCHANGED <<mainVars, chat, app>>

\* part_000:186-197, generateSpeechmaticsSession resolved inside
\* handleSessionExtended: the key it returned is switched in.
RenewalFetchResolved ==
    /\ hook.extending # None
    /\ \E k \in Keys :
          hook' = Effects(hook,
                    SwitchKeys([Fresh(hook) EXCEPT
                                   !.extending = None,
                                   !.keySource = "generateSpeechmaticsSession"],
                               Val(hook.extending).tapRecording,
                               Val(hook.extending).micRecording, k))
    /\ UNCHANGED <<mainVars, chat, app>>

\* part_000:186, generateSpeechmaticsSession rejected inside
\* handleSessionExtended: the handler ends with the error, nothing follows.
RenewalFetchRejected ==
    /\ hook.extending # None
    /\ hook' = Effects(hook, [Fresh(hook) EXCEPT !.extending = None,
                                                 !.renewalFailed = TRUE])
    /\ UNCHANGED <<mainVars, chat, app>>

\* startTranscription of useAudioTap with key k: the adapter records with
\* that key, or the start fails and the adapter stays as it was.
AudioTapStarted(hk, k) ==
    LET called == Call(hk, "handleStartAudioTapTranscription",
                       "startAudioTapTranscription")
    IN  {[called EXCEPT !.audioTapStatus = "RECORDING",
                        !.audioTapKey = Some(k)],
         called}

\* startTranscription of useMicrophoneTranscription with key k, likewise.
MicrophoneStarted(hk, k) ==
    LET called == Call(hk, "handleStartMicrophoneTranscription",
                       "startMicrophoneTranscription")
    IN  {[called EXCEPT !.isRecordingMicrophone = TRUE,
                        !.microphoneKey = Some(k)],
         called}

\* part_000:201-218 up to the first await that suspends the handler.
handleStartAudioTapTranscription ==
    /\ hook.callSession # None
    /\ ~hook.startingAudioTap
    /\ LET key == Val(hook.callSession).speechmaticsApiKey
       IN  IF key # None
           THEN \E after \in AudioTapStarted(Fresh(hook), Val(key)) :
                   hook' = Effects(hook, after)
           ELSE hook' = Effects(hook,
                          Call([Fresh(hook) EXCEPT !.startingAudioTap = TRUE],
                               "handleStartAudioTapTranscription",
                               "generateSpeechmaticsSession"))
    /\ UNCHANGED <<mainVars, chat, app>>

\* part_000:207-217, generateSpeechmaticsSession settled inside
\* handleStartAudioTapTranscription: with a key the adapter is started, an
\* error is caught and logged.
AudioTapActivationSettled ==
    /\ hook.startingAudioTap
    /\ LET done == [Fresh(hook) EXCEPT !.startingAudioTap = FALSE]
       IN  \/ \E k \in Keys : \E after \in AudioTapStarted(done, k) :
                 hook' = Effects(hook, after)
           \/ hook' = Effects(hook, done)
    /\ UNCHANGED <<mainVars, chat, app>>

\* part_000:221-240 up to the first await that suspends the handler.
handleStartMicrophoneTranscription ==
    /\ hook.callSession # None
    /\ ~hook.startingMicrophoneTranscription
    /\ LET key == Val(hook.callSession).speechmaticsApiKey
       IN  IF key # None
           THEN \E after \in MicrophoneStarted(Fresh(hook), Val(key)) :
                   hook' = Effects(hook, after)
           ELSE hook' = Effects(hook,
                          Call([Fresh(hook) EXCEPT
                                   !.startingMicrophoneTranscription = TRUE],
                               "handleStartMicrophoneTranscription",
                               "generateSpeechmaticsSession"))
    /\ UNCHANGED <<mainVars, chat, app>>

\* part_000:229-239, generateSpeechmaticsSession settled inside
\* handleStartMicrophoneTranscription: with a key the adapter is started;
\* the finally block clears the starting flag either way.
MicrophoneActivationSettled ==
    /\ hook.startingMicrophoneTranscription
    /\ LET done == [Fresh(hook) EXCEPT !.startingMicrophoneTranscription = FALSE]
       IN  \/ \E k \in Keys : \E after \in MicrophoneStarted(done, k) :
                 hook' = Effects(hook, after)
           \/ hook' = Effects(hook, done)
    /\ UNCHANGED <<mainVars, chat, app>>

\* part_000:67 and 414, stopRecording of useAudioTap, called by the user:
\* the adapter ends up idle.
stopAudioTapRecording ==
    /\ hook.audioTapStatus = "RECORDING"
    /\ hook' = Effects(hook, [Fresh(hook) EXCEPT !.audioTapStatus = "IDLE",
                                                 !.audioTapKey = None])
    /\ UNCHANGED <<mainVars, chat, app>>

\* part_000:243-245
handleStopMicrophoneTranscription ==
    /\ hook.isRecordingMicrophone
    /\ hook' = Effects(hook, [Fresh(hook) EXCEPT
                                 !.isRecordingMicrophone = FALSE,
                                 !.microphoneKey = None])
    /\ UNCHANGED <<mainVars, chat, app>>

\* part_000:265 and part_000:314, the first statement of both chat
\* triggers; what they do to the conversation is not part of this state.
ChatTriggered ==
    /\ hook' = Effects(hook, [Fresh(hook) EXCEPT
                                 !.hasChatActivitySinceLastExtension = TRUE,
                                 !.chatTriggered = TRUE])
    /\ UNCHANGED <<mainVars, chat, app>>

SessionNext ==
    \/ Tick
    \/ Poll
    \/ RenewalFetchResolved
    \/ RenewalFetchRejected
    \/ handleStartAudioTapTranscription
    \/ AudioTapActivationSettled
    \/ handleStartMicrophoneTranscription
    \/ MicrophoneActivationSettled
    \/ stopAudioTapRecording
    \/ handleStopMicrophoneTranscription
    \/ ChatTriggered

\* ------------------------------------------------------------------ chat
\* The chat handlers of useSessionTranscription (src/unnamed/part_000) on
\* top of useChat.  An invocation of a handler works with the functions of
\* the render it was called from: prepareMessagesForNewMessage trims the
\* `messages` of that render (part_000:248-260), however the conversation
\* has changed while the invocation was suspended.

\* Invocations of chat handlers that may be suspended at the same time.
MaxChatCalls == 2
\* Messages in the conversation when a run begins.
MaxHistory == 11
\* Chat triggers in one run.
MaxTurns == 2

\* part_000:250, messages.slice(-10).
KeepLast == 10

ChatCalls == 1..MaxChatCalls

\* part_000:264, the task of handleGenerateResponse.
Tasks == {"ai-help", "what-to-say", "direct-message"}

\* A message of the conversation: its role and whether data.imageUrl is set.
Message(role, imageUrl) == [role |-> role, imageUrl |-> imageUrl]

\* A conversation of n messages, user and assistant turns in alternation;
\* the user turns carry an image or not.
History(n, imageUrl) ==
    [i \in 1..n |-> IF i % 2 = 1 THEN Message("user", imageUrl)
                    ELSE Message("assistant", FALSE)]

\* Array.prototype.slice(-n): the last n elements, all of them if there are
\* no more than n.
SliceLast(arr, n) ==
    IF Len(arr) <= n THEN arr ELSE SubSeq(arr, Len(arr) - n + 1, Len(arr))

\* part_000:248-260: the array handed to setMessages.
prepareMessagesForNewMessage(messages) ==
    LET arr == SliceLast(messages, KeepLast)
    IN  [idx \in 1..Len(arr) |->
            IF /\ arr[idx].role = "user"
               /\ arr[idx].imageUrl
               /\ idx # Len(arr)
            THEN [arr[idx] EXCEPT !.imageUrl = FALSE]
            ELSE arr[idx]]

\* Texts are sequences of words; the empty sequence is the empty string.
Empty == <<>>

\* part_000:143 and 70-94: what the user may have typed and what an adapter
\* may deliver.
ChatInputs == {Empty, <<"typed">>}
Transcripts == {Empty, <<"heard">>}

\* part_000:73 / 76 / 90 / 93, the sources of the combined transcript.
Sources == {"share", "microphone"}

\* part_000:274
DirectMessagePrefix == <<"**Direct Message from Sales Agent**: ">>

\* An entry of the combined transcript.
Entry(text, source, isPartial) ==
    [text |-> text, source |-> source, partial |-> isPartial]

\* The open partial entries of a source.
OpenPartials(entries, source) ==
    {i \in 1..Len(entries) :
        entries[i].source = source /\ entries[i].partial}

\* addTranscript of useCombinedTranscript: a partial replaces the source's
\* open partial entry, or becomes it; a final drops the source's open
\* partial and is appended.
addTranscript(entries, text, source, isPartial) ==
    IF isPartial
    THEN IF OpenPartials(entries, source) = {}
         THEN Append(entries, Entry(text, source, TRUE))
         ELSE [i \in 1..Len(entries) |->
                  IF i \in OpenPartials(entries, source)
                  THEN Entry(text, source, TRUE)
                  ELSE entries[i]]
    ELSE Append(SelectSeq(entries,
                          LAMBDA e : ~(e.source = source /\ e.partial)),
                Entry(text, source, FALSE))

\* getCombinedTranscriptString of useCombinedTranscript: the texts of the
\* entries in the order of arrival, as one text.
RECURSIVE getCombinedTranscriptString(_)
getCombinedTranscriptString(entries) ==
    IF entries = <<>> THEN Empty
    ELSE Head(entries).text \o getCombinedTranscriptString(Tail(entries))

\* clearCombinedTranscript of useCombinedTranscript.
clearCombinedTranscript == <<>>

\* An invocation that is not running.
IdleCall == [pc |-> "idle", seen |-> <<>>, task |-> "none", chatInput |-> Empty]

\* The invocation a new trigger becomes: invocations differ in nothing but
\* their place in the table, so the first free place is taken.
NextCall(ch, c) ==
    /\ ch.call[c].pc = "idle"
    /\ \A d \in ChatCalls : ch.call[d].pc = "idle" => c <= d

\* What the last chat step did: inFlightBefore is the number of requests
\* that were in flight when it appended, seenLen the length of the
\* `messages` it trimmed, content the content of the user turn it appended,
\* and saveAiAnswer, addTranscript and clearCombinedTranscript the calls it
\* made of these functions.
ChatOp(op, inFlightBefore, seenLen) ==
    [op |-> op, inFlightBefore |-> inFlightBefore, seenLen |-> seenLen,
     content |-> None, saveAiAnswer |-> <<>>, addTranscript |-> <<>>,
     clearCombinedTranscript |-> 0]

\* saveTranscription stands for `callSession?.id &&
\* callSession.saveTranscription` of the renders of the run.
NoChat ==
    [messages |-> <<>>,
     inFlight |-> 0,
     call |-> [c \in ChatCalls |-> IdleCall],
     turns |-> 0,
     chatInput |-> Empty,
     combinedTranscript |-> <<>>,
     saveTranscription |-> FALSE,
     last |-> ChatOp("none", 0, 0)]

ChatInit ==
    \E n \in 0..MaxHistory, imageUrl \in BOOLEAN, save \in BOOLEAN :
        chat = [NoChat EXCEPT !.messages = History(n, imageUrl),
                              !.saveTranscription = save]

\* stop() of useChat: the request in flight is aborted.
stop(ch) == [ch EXCEPT !.inFlight = 0]

\* The guard of part_000:129-133 without the session's setting.
appendAndSave_AnySession(ch, message) ==
    [ch EXCEPT !.messages = Append(@, message),
               !.inFlight = @ + 1,
               !.last.saveAiAnswer =
                   IF message.role = "user"
                   THEN Append(@, message.role) ELSE @]

\* part_000:126-141 on top of append() of useChat: the message is added to
\* the conversation and a request for the assistant's answer is sent; a
\* user turn is handed to saveAiAnswer if the session saves transcriptions.
appendAndSave(ch, message) ==
    [ch EXCEPT !.messages = Append(@, message),
               !.inFlight = @ + 1,
               !.last.saveAiAnswer =
                   IF message.role = "user" /\ ch.saveTranscription
                   THEN Append(@, message.role) ELSE @]

\* part_000:110-123, onFinish of useChat.
onFinish(ch, message) ==
    [ch EXCEPT !.last.saveAiAnswer =
                   IF message.role = "assistant" /\ ch.saveTranscription
                   THEN Append(@, message.role) ELSE @]

\* part_000:265 / 314, setHasChatActivitySinceLastExtension(true).
ChatActivity(hk) ==
    Effects(hk, [Fresh(hk) EXCEPT !.hasChatActivitySinceLastExtension = TRUE,
                                  !.chatTriggered = TRUE])

\* part_000:263-268: the flag is set, stop() is called and the invocation
\* waits for the timer of 0 ms.
handleGenerateResponse(c, task) ==
    /\ NextCall(chat, c)
    /\ chat.turns < MaxTurns
    /\ chat' = [stop(chat) EXCEPT
                   !.call[c] = [pc |-> "tick", seen |-> chat.messages,
                                task |-> task, chatInput |-> chat.chatInput],
                   !.turns = @ + 1,
                   !.last = ChatOp("handleGenerateResponse", chat.inFlight, 0)]
    /\ hook' = ChatActivity(hook)
    /\ UNCHANGED <<mainVars, app>>

\* part_000:272-275: the content of the user turn, from the chatInput of
\* the invocation's render and the combined transcript.
Content(ch, task, chatInput) ==
    IF task = "direct-message" THEN DirectMessagePrefix \o chatInput
    ELSE IF chatInput # Empty THEN chatInput
    ELSE getCombinedTranscriptString(ch.combinedTranscript)

\* The branch of part_000:284-288 taken for every task.
AfterAppend_ClearAlways(ch, task) ==
    [ch EXCEPT !.combinedTranscript = clearCombinedTranscript,
               !.last.clearCombinedTranscript = @ + 1]

\* part_000:284-288
AfterAppend(ch, task) ==
    IF task = "direct-message"
    THEN [ch EXCEPT !.chatInput = Empty]
    ELSE [ch EXCEPT !.combinedTranscript = clearCombinedTranscript,
                    !.last.clearCombinedTranscript = @ + 1]

\* part_000:270-288: the timer fired; the conversation is replaced by the
\* trimmed `messages` of the invocation's render, the user turn is
\* appended, and the chat input or the combined transcript is cleared.
GenerateResumed(c) ==
    /\ chat.call[c].pc = "tick"
    /\ LET call == chat.call[c]
           content == Content(chat, call.task, call.chatInput)
           trimmed == [chat EXCEPT
                          !.messages = prepareMessagesForNewMessage(call.seen),
                          !.call[c] = IdleCall,
                          !.last = [ChatOp("GenerateResumed", chat.inFlight,
                                           Len(call.seen))
                                       EXCEPT !.content = Some(content)]]
       IN  chat' = AfterAppend(appendAndSave(trimmed, Message("user", FALSE)),
                               call.task)
    /\ UNCHANGED <<mainVars, hook, app>>

\* The trim of part_000:324 made before the screenshot is awaited.
handleGenerateResponseWithScreenshot_TrimFirst(c) ==
    /\ NextCall(chat, c)
    /\ chat.turns < MaxTurns
    /\ chat' = [stop(chat) EXCEPT
                   !.messages = prepareMessagesForNewMessage(chat.messages),
                   !.call[c] = [pc |-> "capture",
                                seen |-> prepareMessagesForNewMessage(
                                             chat.messages),
                                task |-> "none", chatInput |-> chat.chatInput],
                   !.turns = @ + 1,
                   !.last = ChatOp("handleGenerateResponseWithScreenshot",
                                   chat.inFlight, 0)]
    /\ hook' = ChatActivity(hook)
    /\ UNCHANGED <<mainVars, app>>

\* part_000:313-319: the flag is set, stop() is called and the invocation
\* waits for the screenshot.
handleGenerateResponseWithScreenshot(c) ==
    /\ NextCall(chat, c)
    /\ chat.turns < MaxTurns
    /\ chat' = [stop(chat) EXCEPT
                   !.call[c] = [pc |-> "capture", seen |-> chat.messages,
                                task |-> "none", chatInput |-> chat.chatInput],
                   !.turns = @ + 1,
                   !.last = ChatOp("handleGenerateResponseWithScreenshot",
                                   chat.inFlight, 0)]
    /\ hook' = ChatActivity(hook)
    /\ UNCHANGED <<mainVars, app>>

\* part_000:319-322: captureScreenshotMutate() resolved; the invocation
\* waits for resizeImage.
ScreenshotCaptured(c) ==
    /\ chat.call[c].pc = "capture"
    /\ chat' = [chat EXCEPT !.call[c].pc = "resize",
                            !.last = ChatOp("ScreenshotCaptured", 0, 0)]
    /\ UNCHANGED <<mainVars, hook, app>>

\* part_000:322-332: resizeImage resolved; the conversation is replaced by
\* the trimmed `messages` of the invocation's render and the user turn with
\* the image is appended.
ScreenshotResized(c) ==
    /\ chat.call[c].pc = "resize"
    /\ LET trimmed == [chat EXCEPT
                          !.messages = prepareMessagesForNewMessage(
                                           chat.call[c].seen),
                          !.call[c] = IdleCall,
                          !.last = ChatOp("ScreenshotResized", chat.inFlight,
                                          Len(chat.call[c].seen))]
       IN  chat' = appendAndSave(trimmed, Message("user", TRUE))
    /\ UNCHANGED <<mainVars, hook, app>>

\* part_000:319/322, 333-335: the capture or the resize rejected; the error
\* is logged and the invocation ends.
ScreenshotFailed(c) ==
    /\ chat.call[c].pc \in {"capture", "resize"}
    /\ chat' = [chat EXCEPT !.call[c] = IdleCall,
                            !.last = ChatOp("ScreenshotFailed", 0, 0)]
    /\ UNCHANGED <<mainVars, hook, app>>

\* useChat: a request in flight ends with the assistant's message, which
\* joins the conversation and is handed to onFinish.
AnswerFinished ==
    /\ chat.inFlight > 0
    /\ chat' = onFinish([chat EXCEPT
                            !.messages = Append(@, Message("assistant", FALSE)),
                            !.inFlight = @ - 1,
                            !.last = ChatOp("AnswerFinished", chat.inFlight,
                                            0)],
                        Message("assistant", FALSE))
    /\ UNCHANGED <<mainVars, hook, app>>

\* part_000:350-353
handleClearAllAnswers ==
    /\ chat.messages # <<>>
    /\ chat' = [stop(chat) EXCEPT
                   !.messages = <<>>,
                   !.last = ChatOp("handleClearAllAnswers", chat.inFlight, 0)]
    /\ UNCHANGED <<mainVars, hook, app>>

ChatNext ==
    \/ \E c \in ChatCalls, task \in Tasks : handleGenerateResponse(c, task)
    \/ \E c \in ChatCalls : GenerateResumed(c)
    \/ \E c \in ChatCalls : handleGenerateResponseWithScreenshot(c)
    \/ \E c \in ChatCalls : ScreenshotCaptured(c)
    \/ \E c \in ChatCalls : ScreenshotResized(c)
    \/ \E c \in ChatCalls : ScreenshotFailed(c)
    \/ AnswerFinished
    \/ handleClearAllAnswers

\* ------------------------------------------------------ combined transcript
\* The callbacks handed to the adapter hooks (part_000:70-77, 87-94) and the chat
\* input, next to the chat handlers that read and clear them.

\* Entries the combined transcript may hold.
MaxEntries == 2

\* The addTranscript call of a callback, made on the combined transcript.
addToCombinedTranscript(ch, text, source, isPartial) ==
    [ch EXCEPT !.combinedTranscript = addTranscript(@, text, source, isPartial),
               !.last.addTranscript = Append(@, Entry(text, source, isPartial))]

\* What the last step was handed by an adapter.
TranscriptOp(op, transcript, source) ==
    [ChatOp(op, 0, 0) EXCEPT !.content = Some(Entry(transcript, source,
                                                    op = "onPartialTranscript"))]

\* part_000:70-74 and 87-91: the callback for a final transcript of the
\* system tap ('share') and of the microphone.
onTranscript(source, transcript) ==
    /\ LET noted == [chat EXCEPT
                        !.last = TranscriptOp("onTranscript", transcript,
                                              source)]
       IN  chat' = IF transcript = Empty THEN noted
                   ELSE addToCombinedTranscript(noted, transcript, source,
                                                FALSE)
    /\ Len(chat'.combinedTranscript) <= MaxEntries
    /\ UNCHANGED <<mainVars, hook, app>>

\* part_000:75-77 and 92-94: the callback for a partial transcript.
onPartialTranscript(source, partialTranscript) ==
    /\ chat' = addToCombinedTranscript(
                   [chat EXCEPT
                       !.last = TranscriptOp("onPartialTranscript",
                                             partialTranscript, source)],
                   partialTranscript, source, TRUE)
    /\ Len(chat'.combinedTranscript) <= MaxEntries
    /\ UNCHANGED <<mainVars, hook, app>>

\* part_000:143, 430: the chat input as the user edits it.
setChatInput(text) ==
    /\ text # chat.chatInput
    /\ chat' = [chat EXCEPT !.chatInput = text,
                            !.last = ChatOp("setChatInput", 0, 0)]
    /\ UNCHANGED <<mainVars, hook, app>>

TranscriptNext ==
    \/ \E s \in Sources, t \in Transcripts : onTranscript(s, t)
    \/ \E s \in Sources, t \in Transcripts : onPartialTranscript(s, t)
    \/ \E t \in ChatInputs : setChatInput(t)
    \/ ChatNext

\* ------------------------------------------------------ protocol activation
\* main.ts:56-60, 211-269, 271-353, 364-368: the main window, the stored
\* protocol URL and the events that hand a protocol URL to the main process.

\* Protocol activations in one run.
MaxActivations == 2

\* main.ts:214
ProtocolPrefix == "clozerai://"

\* A URL is the sequence of its parts, the scheme first.
Urls ==
    {<<ProtocolPrefix, "s1">>, <<ProtocolPrefix, "s2", "/">>,
     <<"https://", "s3">>}

\* Command lines of a second instance: up to two arguments, a URL or a flag.
Args == Urls \cup {<<"--flag">>}
Argvs == {<<>>} \cup {<<a>> : a \in Args} \cup {<<a, b>> : a, b \in Args}

\* String.prototype.startsWith
startsWith(url, prefix) == url # <<>> /\ Head(url) = prefix

\* Array.prototype.find with `arg.startsWith('clozerai://')`: the first
\* such argument, None if there is none.
RECURSIVE FindProtocolArg(_)
FindProtocolArg(argv) ==
    IF argv = <<>> THEN None
    ELSE IF startsWith(Head(argv), ProtocolPrefix) THEN Some(Head(argv))
    ELSE FindProtocolArg(Tail(argv))

\* main.ts:220, url.replace(prefix, '').replace(/\/$/, '') of a URL that
\* starts with the prefix.
SessionId(url) ==
    LET rest == Tail(url)
    IN  IF rest # <<>> /\ rest[Len(rest)] = "/"
        THEN SubSeq(rest, 1, Len(rest) - 1)
        ELSE rest

\* What the last step of this part did: the URL handleProtocolUrl was
\* given, whether the window existed and had fired ready-to-show then, and
\* the 'ipc-load-session' messages the step sent.
AppOp(op) ==
    [op |-> op, url |-> None, hadWindow |-> FALSE, wasShown |-> FALSE,
     sent |-> <<>>]

\* main.ts:56, 60 as the module is loaded, before whenReady: created says
\* createWindow has run, shown that the window has fired ready-to-show,
\* pending holds the valid URLs received while there was no window.
NoApp ==
    [mainWindow |-> FALSE,
     created |-> FALSE,
     shown |-> FALSE,
     initialProtocolUrl |-> None,
     activations |-> 0,
     pending |-> {},
     last |-> AppOp("none")]

\* main.ts:263-269: on Windows a protocol URL on the command line is stored.
AppInit ==
    \E argv \in Argvs :
        LET protocolArg == IF platform = "win32" THEN FindProtocolArg(argv)
                           ELSE None
        IN  app = [NoApp EXCEPT
                      !.initialProtocolUrl = protocolArg,
                      !.pending = IF protocolArg = None THEN {}
                                  ELSE {Val(protocolArg)}]

\* main.ts:211-233
handleProtocolUrl(a, url) ==
    LET noted == [a EXCEPT !.last.url = Some(url),
                           !.last.hadWindow = a.mainWindow,
                           !.last.wasShown = a.shown]
    IN  IF ~startsWith(url, ProtocolPrefix) THEN noted
        ELSE IF a.mainWindow
        THEN [noted EXCEPT !.last.sent = Append(@, SessionId(url))]
        ELSE [noted EXCEPT !.initialProtocolUrl = Some(url),
                           !.pending = @ \cup {url}]

\* main.ts:236-239, app.on('open-url'), which Electron emits on macOS.
OpenUrl(url) ==
    /\ platform = "darwin"
    /\ app.activations < MaxActivations
    /\ app' = handleProtocolUrl([app EXCEPT !.activations = @ + 1,
                                            !.last = AppOp("OpenUrl")], url)
    /\ UNCHANGED <<mainVars, hook, chat>>

\* main.ts:247-260, app.on('second-instance'), which Electron emits only
\* after the app's ready event, that is after whenReady has resolved and
\* createWindow has run (main.ts:364-368).
SecondInstance(argv) ==
    /\ app.created
    /\ app.activations < MaxActivations
    /\ LET noted == [app EXCEPT !.activations = @ + 1,
                                !.last = AppOp("SecondInstance")]
           protocolArg == FindProtocolArg(argv)
       IN  app' = IF platform = "win32" /\ protocolArg # None
                  THEN handleProtocolUrl(noted, Val(protocolArg))
                  ELSE noted
    /\ UNCHANGED <<mainVars, hook, chat>>

\* main.ts:271-335, 364-368: whenReady resolved and createWindow ran up to
\* loadURL.
createWindow ==
    /\ ~app.created
    /\ app' = [app EXCEPT !.created = TRUE, !.mainWindow = TRUE,
                          !.last = AppOp("createWindow")]
    /\ UNCHANGED <<mainVars, hook, chat>>

\* main.ts:337-349, mainWindow.on('ready-to-show')
ReadyToShow ==
    /\ app.mainWindow
    /\ ~app.shown
    /\ LET shown == [app EXCEPT !.shown = TRUE, !.last = AppOp("ReadyToShow")]
       IN  app' = IF shown.initialProtocolUrl # None
                  THEN [handleProtocolUrl(shown,
                                          Val(shown.initialProtocolUrl))
                           EXCEPT !.initialProtocolUrl = None]
                  ELSE shown
    /\ UNCHANGED <<mainVars, hook, chat>>

\* main.ts:351-353, mainWindow.on('closed')
Closed ==
    /\ app.mainWindow
    /\ app' = [app EXCEPT !.mainWindow = FALSE, !.last = AppOp("Closed")]
    /\ UNCHANGED <<mainVars, hook, chat>>

AppNext ==
    \/ \E url \in Urls : OpenUrl(url)
    \/ \E argv \in Argvs : SecondInstance(argv)
    \/ createWindow
    \/ ReadyToShow
    \/ Closed

\* ------------------------------------------------- claims, main process

\* Segments in which the handler calls a native start function.
NativeStartOps == {"StartAudioTap", "StartCleanupResolved", "StartCleanupThrew"}
\* Segments in which the handler calls cleanup().
CleanupCallOps == {"StartAudioTapCleanup", "StopAudioTapCleanup"}
\* Segments that end an 'ipc-stop-audio-tap' invocation.
StopReturnOps == {"StopAudioTapEmpty", "StopCleanupResolved", "StopCleanupThrew"}

\* The last segment called startAudioTapMac / startAudioTapWin.
NativeStartJustBegun ==
    lastOp.op \in NativeStartOps /\ lastOp.target # NoInstance

\* C1: at most one system-tap adapter instance is live at any instant, for
\* every sequence of start invocations, overlapping ones included.
C1_AtMostOneLive == Cardinality(Live) <= 1

\* C2: the start handler never begins a native start while a cleanup()
\* issued by an earlier or concurrent invocation is still outstanding.
C2_NoStartDuringCleanup ==
    NativeStartJustBegun => \A i \in Instances : CleanupWaiters(i) = {}

\* C3: whenever no handler is in progress, a non-null slot refers to a live
\* instance and a null slot means that no started instance remains live.
C3_SlotConsistent ==
    Quiescent =>
        /\ audioTapInstance # NoInstance => inst[audioTapInstance] = "live"
        /\ audioTapInstance = NoInstance => Live = {}

\* C4: cleanup() is never invoked on an instance while another cleanup()
\* invocation on that same instance has not completed.
C4_NoConcurrentCleanup ==
    \A i \in Instances : Cardinality(CleanupWaiters(i)) <= 1

\* C5: when a start invocation finds instance A in the slot, the cleanup()
\* it called on A has completed before it calls the native start of B and
\* before it returns RECORDING; when it returns, the slot holds B, and A is
\* never referenced again: it never returns to the slot and cleanup() is
\* never called on it again.
C5_OldCleanedBeforeNewStart ==
    /\ \A h \in Handlers :
          (pc[h] = "startAwaitStart" /\ replaced[h] # NoInstance) =>
              /\ inst[replaced[h]] = "cleaned"
              /\ h \notin CleanupWaiters(replaced[h])
              /\ awaiting[h] # replaced[h]
    /\ (lastOp.op = "StartResolved" /\ lastOp.old # NoInstance) =>
          /\ lastOp.ret = "RECORDING"
          /\ audioTapInstance = lastOp.target
          /\ lastOp.target # lastOp.old
          /\ inst[lastOp.old] = "cleaned"
    /\ \A i \in Instances : inst[i] = "cleaned" => audioTapInstance # i
    /\ lastOp.op \in CleanupCallOps => inst[lastOp.target] = "live"

C5_Witness ==
    /\ lastOp.op = "StartResolved"
    /\ lastOp.old # NoInstance
    /\ audioTapInstance = lastOp.target

\* C6: a start invocation whose native start fails throws and leaves the
\* slot empty; one whose native start succeeds has stored the new handle in
\* the slot and returns RECORDING.
C6_StartOutcome ==
    /\ lastOp.op = "StartRejected" =>
          lastOp.ret = "StartFailed" /\ audioTapInstance = NoInstance
    /\ lastOp.op = "StartResolved" =>
          lastOp.ret = "RECORDING" /\ audioTapInstance = lastOp.target

\* C7: a cleanup() that throws is not fatal: the stop invocation clears the
\* slot and returns IDLE, and the start invocation clears the slot and goes
\* on to call the native start of the new instance.
C7_CleanupThrowNotFatal ==
    /\ lastOp.op = "StopCleanupThrew" =>
          lastOp.ret = "IDLE" /\ audioTapInstance = NoInstance
    /\ lastOp.op = "StartCleanupThrew" =>
          /\ lastOp.ret = "none"
          /\ audioTapInstance = NoInstance
          /\ lastOp.target # NoInstance
          /\ inst[lastOp.target] = "starting"
          /\ \E h \in Handlers :
                pc[h] = "startAwaitStart" /\ awaiting[h] = lastOp.target

C7_Witness ==
    /\ lastOp.op = "StartCleanupThrew"
    /\ lastOp.old # NoInstance
    /\ inst[lastOp.old] = "cleaned"

\* C8: a stop invocation returns IDLE; one made right after another stop
\* invocation returned finds the slot empty, so it calls no cleanup() (the
\* two together call it at most once); and a stop invocation on an empty
\* slot returns IDLE without calling cleanup() and leaves the slot empty.
C8_StopIdempotent ==
    /\ lastOp.op \in StopReturnOps =>
          lastOp.ret = "IDLE" /\ audioTapInstance = NoInstance
    /\ (lastOp.prev \in StopReturnOps
            /\ lastOp.op \in {"StopAudioTapEmpty", "StopAudioTapCleanup"}) =>
          /\ lastOp.op = "StopAudioTapEmpty"
          /\ lastOp.target = NoInstance
    /\ lastOp.op = "StopAudioTapEmpty" =>
          /\ lastOp.target = NoInstance
          /\ audioTapInstance = NoInstance

C8_Witness ==
    /\ lastOp.prev \in {"StopCleanupResolved", "StopCleanupThrew"}
    /\ lastOp.op = "StopAudioTapEmpty"
    /\ lastOp.ret = "IDLE"

\* C9: on a host that is neither darwin nor win32 a start invocation throws
\* the unsupported-platform error at once, no native start function is ever
\* called (no instance comes into being) and the slot stays empty.
C9_UnsupportedPlatform ==
    platform \notin {"darwin", "win32"} =>
        /\ audioTapInstance = NoInstance
        /\ \A i \in Instances : inst[i] = "unused"
        /\ Quiescent
        /\ lastOp.op \in NativeStartOps =>
              lastOp.ret = "UnsupportedPlatform" /\ lastOp.target = NoInstance

C9_Witness ==
    /\ platform \notin {"darwin", "win32"}
    /\ lastOp.op = "StartAudioTap"
    /\ lastOp.ret = "UnsupportedPlatform"

\* --------------------------------------------------- claims, renderer

\* After the effects of a commit have run, the re-render they cause runs no
\* further effect: one pass of Effects is the whole cascade.
EffectsSettled ==
    [Effects(hook, hook) EXCEPT !.lastEffect = hook.lastEffect] = hook

\* C10: renewal is attempted at most once per entry into near-expiry:
\* hasAutoExtended is armed exactly when handleSessionExtended has been
\* called since the flag was last reset, no second call is made while it is
\* armed, and it is reset only in a render whose time-left is above the
\* reset threshold.
C10_OneAttemptPerCycle ==
    /\ hook.attempts <= 1
    /\ hook.hasAutoExtended <=> hook.attempts = 1
    /\ hook.lastEffect = "extend" => hook.hasAutoExtended
    /\ hook.lastEffect = "reset" =>
          /\ ~hook.hasAutoExtended
          /\ Truthy(timeLeft(hook))
          /\ Val(timeLeft(hook)) > ResetAboveMs

\* The flag has been armed by an attempt and reset again after the server
\* prolonged the session.
C10_Witness ==
    /\ hook.lastEffect = "reset"
    /\ ~hook.hasAutoExtended
    /\ Val(hook.callSession).extended >= 1

\* C11: the flag is disarmed only above a threshold strictly larger than the
\* renewal threshold, so while time-left moves around the renewal threshold
\* without rising above that band, renewal is attempted once and not once
\* per oscillation.
C11_OncePerOscillation == hook.nearAttempts <= 1

\* C12: the auto-extension effect calls handleSessionExtended only in a
\* render in which the session is not a trial, canExtend is true, no
\* generateSpeechmaticsSession call is in flight, the chat-activity flag is
\* true and time-left is below the renewal threshold.
C12_AttemptOnlyIfEligible ==
    hook.lastEffect = "extend" =>
        /\ hook.attemptRender # None
        /\ LET seen == Val(hook.attemptRender)
           IN  /\ ~seen.trial
               /\ seen.canExtend
               /\ ~seen.loading
               /\ seen.chatActivity
               /\ seen.timeLeft # None
               /\ Val(seen.timeLeft) < RenewBelowMs
        /\ ~Val(hook.callSession).trial
        /\ Val(hook.callSession).canExtend

\* A renewal was attempted while the system-tap adapter was recording, and
\* the attempt started a fetch of its own.
C12_Witness ==
    /\ hook.lastEffect = "extend"
    /\ hook.extending # None
    /\ hook.audioTapStatus = "RECORDING"

\* The credential switches handleSessionExtended may issue.
SwitchCalls ==
    {<<"handleSessionExtended", "switchAudioTapApiKey">>,
     <<"handleSessionExtended", "switchMicrophoneApiKey">>}

\* C13: every renewal first calls generateSpeechmaticsSession, and a
\* credential switch is issued only after that call returned, with the key
\* it returned.
C13_FetchBeforeSwitch ==
    /\ hook.lastEffect = "extend" =>
          <<"handleSessionExtended", "generateSpeechmaticsSession">>
              \in hook.calls
    /\ hook.calls \cap SwitchCalls # {} =>
          hook.keySource = "generateSpeechmaticsSession"

\* C14: when the credential fetch of a renewal fails, no credential switch
\* is issued and the renewal flag stays armed, and on a later clock tick
\* that finds the session still near expiry and eligible the renewal is
\* attempted again.
C14_FailedFetchRetried ==
    [][/\ (~hook.renewalFailed /\ hook'.renewalFailed) =>
              /\ hook'.calls \cap SwitchCalls = {}
              /\ hook'.audioTapKey = hook.audioTapKey
              /\ hook'.microphoneKey = hook.microphoneKey
       /\ hook'.renewalFailed => hook'.hasAutoExtended
       /\ LET render == [hook EXCEPT !.now = hook'.now]
          IN  (/\ hook'.now # hook.now
               /\ hook.renewalFailed
               /\ willAutoExtend(render)
               /\ timeLeft(render) # None
               /\ Val(timeLeft(render)) > 0
               /\ Val(timeLeft(render)) < RenewBelowMs) =>
                  hook'.lastEffect = "extend"]_vars

\* C15: a renewal is attempted only if a chat trigger has occurred since
\* the last successful renewal, or since the hook was mounted if there has
\* been none; a chat trigger sets the chat-activity flag and a successful
\* renewal clears it.
C15_IdleNotRenewed ==
    /\ hook.lastEffect = "extend" => Val(hook.attemptRender).chatTriggered
    /\ hook.chatTriggered => hook.hasChatActivitySinceLastExtension
    /\ hook.keySource # "none" => ~hook.hasChatActivitySinceLastExtension

\* The session has run out on the local clock: now >= endsAt.
LocallyExpired(hk) == timeLeft(hk) # None /\ Val(timeLeft(hk)) <= 0

\* The calls that hand a key to an adapter's start function.
StartCalls ==
    {<<"handleStartAudioTapTranscription", "startAudioTapTranscription">>,
     <<"handleStartMicrophoneTranscription", "startMicrophoneTranscription">>}

\* C16: once the session is expired (now >= endsAt) no adapter start is
\* issued by handleStartAudioTapTranscription or
\* handleStartMicrophoneTranscription, and no renewal and no credential
\* switch is issued.
C16_NothingAfterExpiry ==
    LocallyExpired(hook) =>
        /\ hook.calls \cap StartCalls = {}
        /\ hook.calls \cap SwitchCalls = {}
        /\ hook.lastEffect # "extend"

\* The stop requests of handleStopAllRecording.
StopCalls ==
    {<<"handleStopAllRecording", "stopAudioTapRecording">>,
     <<"handleStopAllRecording", "stopMicrophoneRecording">>}

NoAdapterRecording(hk) ==
    hk.audioTapStatus # "RECORDING" /\ ~hk.isRecordingMicrophone

\* C17: when the session becomes expired, stop is requested for both
\* adapters whatever their states, and from every state in which the
\* session is expired a state follows in which no adapter is recording.
C17_ExpiredStopsAll ==
    /\ [][(~sessionExpired(hook) /\ sessionExpired(hook')) =>
              StopCalls \subseteq hook'.calls]_vars
    /\ [](sessionExpired(hook) => <>NoAdapterRecording(hook))

\* C18: handleSessionExtended calls nothing but generateSpeechmaticsSession
\* and the two credential switches, never a stop or a start of an adapter;
\* the step in which a renewal that waited for its fetch ends leaves the
\* recording state of both adapters as it found it.
C18_RenewalKeepsCapture ==
    [][/\ \A c \in hook'.calls :
              c[1] = "handleSessionExtended" =>
                  c \in SwitchCalls \cup
                       {<<"handleSessionExtended", "generateSpeechmaticsSession">>}
       /\ hook'.keySource = "generateSpeechmaticsSession" =>
              /\ hook'.audioTapStatus = hook.audioTapStatus
              /\ hook'.isRecordingMicrophone = hook.isRecordingMicrophone]_vars

\* A renewal that fetched its key has switched the key of the system-tap
\* adapter, which is recording as before.
C18_Witness ==
    /\ hook.keySource = "generateSpeechmaticsSession"
    /\ <<"handleSessionExtended", "switchAudioTapApiKey">> \in hook.calls
    /\ hook.audioTapStatus = "RECORDING"

\* C25: when a renewal switches the fetched key in, switchApiKey is called
\* on exactly the adapters that are recording at that moment: one that
\* started while the fetch was in flight gets the call, one that stopped
\* meanwhile does not.
C25_SwitchesCurrentRecorders ==
    [][hook'.keySource = "generateSpeechmaticsSession" =>
          /\ <<"handleSessionExtended", "switchAudioTapApiKey">>
                  \in hook'.calls
              <=> hook.audioTapStatus = "RECORDING"
          /\ <<"handleSessionExtended", "switchMicrophoneApiKey">>
                  \in hook'.calls
              <=> hook.isRecordingMicrophone]_vars

\* ------------------------------------------------------- claims, chat

\* The steps in which a chat handler appends its user turn.
AppendOps == {"GenerateResumed", "ScreenshotResized"}

\* C19: at most one chat request is in flight at any time: whenever a chat
\* handler appends its user turn and so starts a request, no earlier
\* request is still in flight, however the triggers interleave.
C19_OneRequestInFlight ==
    /\ chat.inFlight <= 1
    /\ chat.last.op \in AppendOps => chat.last.inFlightBefore = 0

\* C20: when handleGenerateResponse has completed, the conversation holds
\* at most 10 messages, the new user turn included, and exactly 10 if the
\* history it started from had more than 10.
C20_AtMostTenRetained ==
    chat.last.op = "GenerateResumed" =>
        /\ Len(chat.messages) <= KeepLast
        /\ chat.last.seenLen > KeepLast => Len(chat.messages) = KeepLast

\* The positions of the user turns of a conversation.
UserTurns(messages) ==
    {i \in 1..Len(messages) : messages[i].role = "user"}

\* C21: when a chat handler has appended its user turn, no user turn older
\* than the most recent user turn carries an image, and the turn appended
\* with a screenshot carries its image.
C21_OnlyLatestImage ==
    chat.last.op \in AppendOps =>
        /\ \A i, j \in UserTurns(chat.messages) :
               i < j => ~chat.messages[i].imageUrl
        /\ chat.last.op = "ScreenshotResized" =>
               chat.messages[Len(chat.messages)].imageUrl

\* A step of handleGenerateResponseWithScreenshot that does not reach the
\* append: the call, the capture that resolved, the capture or resize that
\* failed.
ScreenshotStepBeforeAppend(c) ==
    \/ handleGenerateResponseWithScreenshot(c)
    \/ ScreenshotCaptured(c)
    \/ ScreenshotFailed(c)

\* C23: a generateWithScreenshot whose capture or resize fails appends no
\* user turn, leaves the conversation exactly as it was (not trimmed, no
\* image stripped) and hands nothing to saveAiAnswer, in any of its steps.
C23_FailedScreenshotNoTrace ==
    [][\A c \in ChatCalls :
          ScreenshotStepBeforeAppend(c) =>
              /\ chat'.messages = chat.messages
              /\ chat'.last.saveAiAnswer = <<>>]_vars

\* A screenshot failed on a conversation a trim would have changed, in a
\* session that saves its turns.
C23_Witness ==
    /\ chat.last.op = "ScreenshotFailed"
    /\ chat.saveTranscription
    /\ Len(chat.messages) > KeepLast
    /\ chat.messages[Len(chat.messages) - 2].imageUrl

\* What a step that added a turn of the given role hands to saveAiAnswer.
SavedOnce(role) == IF chat.saveTranscription THEN <<role>> ELSE <<>>

\* C24: a turn is handed to saveAiAnswer only if the session saves its
\* transcription; if it does, a handler that appends its user turn hands it
\* over exactly once, an assistant turn that completes is handed over
\* exactly once, and no other step hands anything over; the turn joins the
\* conversation whether or not it is saved.
C24_SavedIffEnabled ==
    LET n == Len(chat.messages)
    IN  /\ chat.last.saveAiAnswer # <<>> => chat.saveTranscription
        /\ chat.last.op \in AppendOps =>
               /\ n > 0 /\ chat.messages[n].role = "user"
               /\ chat.last.saveAiAnswer = SavedOnce("user")
        /\ chat.last.op = "AnswerFinished" =>
               /\ n > 0 /\ chat.messages[n].role = "assistant"
               /\ chat.last.saveAiAnswer = SavedOnce("assistant")
        /\ chat.last.op \notin AppendOps \cup {"AnswerFinished"} =>
               chat.last.saveAiAnswer = <<>>

\* A user turn was appended and saved.
C24_Witness ==
    /\ chat.last.op = "ScreenshotResized"
    /\ chat.saveTranscription
    /\ chat.last.saveAiAnswer = <<"user">>
    /\ chat.messages[Len(chat.messages)].role = "user"

\* ------------------------------------------- claims, combined transcript

\* The tasks for which generate sends the transcript.
TranscriptTasks == {"ai-help", "what-to-say"}

\* A step of handleGenerateResponseWithScreenshot, up to its end or failure.
ScreenshotStep(c) ==
    \/ handleGenerateResponseWithScreenshot(c)
    \/ ScreenshotCaptured(c)
    \/ ScreenshotResized(c)
    \/ ScreenshotFailed(c)

\* C22: generate clears the combined transcript exactly once when its task
\* is 'ai-help' or 'what-to-say' (not before its await, once after it),
\* leaves it as it is when the task is 'direct-message', and no step of
\* generateWithScreenshot, failed or not, clears or changes it.
C22_TranscriptCleared ==
    [][\A c \in ChatCalls :
          /\ (\E task \in Tasks : handleGenerateResponse(c, task)) =>
                 /\ chat'.last.clearCombinedTranscript = 0
                 /\ chat'.combinedTranscript = chat.combinedTranscript
          /\ (GenerateResumed(c) /\ chat.call[c].task \in TranscriptTasks) =>
                 /\ chat'.last.clearCombinedTranscript = 1
                 /\ chat'.combinedTranscript = <<>>
          /\ (GenerateResumed(c) /\ chat.call[c].task = "direct-message") =>
                 /\ chat'.last.clearCombinedTranscript = 0
                 /\ chat'.combinedTranscript = chat.combinedTranscript
          /\ ScreenshotStep(c) =>
                 /\ chat'.last.clearCombinedTranscript = 0
                 /\ chat'.combinedTranscript = chat.combinedTranscript]_vars

\* A generate that sent what had been heard has cleared it.
C22_Witness ==
    /\ chat.last.op = "GenerateResumed"
    /\ chat.last.content = Some(<<"heard">>)
    /\ chat.last.clearCombinedTranscript = 1
    /\ chat.combinedTranscript = <<>>

\* C26: no accumulated speech is discarded unsent: whenever generate clears
\* a combined transcript that holds speech, the content of the user turn it
\* appended in that invocation is the combined transcript string that was
\* in the buffer, whatever the chat input holds.
C26_ClearedMeansSent ==
    [][\A c \in ChatCalls :
          LET held == getCombinedTranscriptString(chat.combinedTranscript)
          IN  (/\ GenerateResumed(c)
               /\ chat'.last.clearCombinedTranscript > 0
               /\ held # Empty) =>
                  chat'.last.content = Some(held)]_vars

\* C27: a final transcript an adapter delivers, an empty one included, is
\* handed to addTranscript once as a final of its source, after which the
\* source has no open partial; a partial transcript is handed to
\* addTranscript once as a partial of its source.
C27_EveryEventReachesBuffer ==
    /\ chat.last.op = "onTranscript" =>
           LET event == Val(chat.last.content)
           IN  /\ chat.last.addTranscript =
                      <<Entry(event.text, event.source, FALSE)>>
               /\ OpenPartials(chat.combinedTranscript, event.source) = {}
    /\ chat.last.op = "onPartialTranscript" =>
           LET event == Val(chat.last.content)
           IN  chat.last.addTranscript =
                   <<Entry(event.text, event.source, TRUE)>>

\* ------------------------------------------- claims, protocol activation

\* The steps that receive a protocol activation.
ActivationOps == {"OpenUrl", "SecondInstance"}

\* The URL the last step handed to handleProtocolUrl starts with the prefix.
ValidUrlHandled ==
    app.last.url # None /\ startsWith(Val(app.last.url), ProtocolPrefix)

\* The messages among `sent` that carry the session of `url`.
Deliveries(sent, url) ==
    {i \in 1..Len(sent) : sent[i] = SessionId(url)}

\* C28: an 'ipc-load-session' message is sent only for a URL that starts
\* with 'clozerai://'; a valid URL received while there is no main window
\* is stored and sends nothing; when the window fires ready-to-show every
\* valid URL received while there was no window is delivered exactly once
\* and the stored URL is cleared; a valid URL received once the window is
\* ready is delivered at once.
C28_ProtocolUrlDelivered ==
    /\ app.last.sent # <<>> =>
           /\ ValidUrlHandled
           /\ app.last.sent = <<SessionId(Val(app.last.url))>>
    /\ (app.last.op \in ActivationOps /\ ValidUrlHandled
            /\ ~app.last.hadWindow) =>
           /\ app.initialProtocolUrl = app.last.url
           /\ app.last.sent = <<>>
    /\ app.last.op = "ReadyToShow" =>
           /\ app.initialProtocolUrl = None
           /\ \A url \in app.pending :
                  Cardinality(Deliveries(app.last.sent, url)) = 1
    /\ (app.last.op \in ActivationOps /\ ValidUrlHandled
            /\ app.last.hadWindow /\ app.last.wasShown) =>
           app.last.sent = <<SessionId(Val(app.last.url))>>

\* ---------------------------------------------------------- specifications

\* The main process while the renderer hook is left alone.
Init == MainInit /\ hook = HookInit /\ chat = NoChat /\ app = NoApp
Next == MainNext
Spec == Init /\ [][Next]_vars

\* The renderer hook while no audio-tap IPC is in flight.
SessionInit ==
    /\ MainInit /\ platform = "darwin"
    /\ hook = HookInit /\ chat = NoChat /\ app = NoApp
SpecSession == SessionInit /\ [][SessionNext]_vars

\* The chat handlers while the session is not loaded and no audio-tap IPC
\* is in flight.
ChatSpecInit ==
    /\ MainInit /\ platform = "darwin"
    /\ hook = HookInit /\ ChatInit /\ app = NoApp
SpecChat == ChatSpecInit /\ [][ChatNext]_vars

\* The chat handlers next to the adapters' transcripts and the chat input,
\* from an empty conversation, in a run with one chat trigger left.
TranscriptSpecInit ==
    /\ MainInit /\ platform = "darwin" /\ hook = HookInit /\ app = NoApp
    /\ \E save \in BOOLEAN :
           chat = [NoChat EXCEPT !.saveTranscription = save,
                                 !.turns = MaxTurns - 1]
SpecTranscript == TranscriptSpecInit /\ [][TranscriptNext]_vars

\* The same, with what the runtime keeps doing: the interval timer and the
\* refetch interval keep firing and a call that was made settles.  What the
\* user does (starts, stops, chat triggers) is under no obligation.
SpecSessionLive ==
    /\ SpecSession
    /\ WF_vars(Tick)
    /\ WF_vars(Poll)
    /\ WF_vars(RenewalFetchResolved \/ RenewalFetchRejected)
    /\ WF_vars(AudioTapActivationSettled)
    /\ WF_vars(MicrophoneActivationSettled)

\* The protocol activations and the main window while no audio-tap IPC is
\* in flight and the renderer is left alone.
ProtocolInit == MainInit /\ hook = HookInit /\ chat = NoChat /\ AppInit
SpecProtocol == ProtocolInit /\ [][AppNext]_vars

====
